---------------------------- MODULE Spec2Model ----------------------------
(***************************************************************************)
(* Billy Bass + Amazon Nova Sonic: the session protocol engine             *)
(* (nova_sonic_client.py), the orchestrator (billy_bass_nova_sonic.py) and  *)
(* the actuation path, as state machines.                                  *)
(*                                                                         *)
(* The specifications share the variables below; each leaves the           *)
(* variables of the others unchanged:                                      *)
(*   Spec      the orchestrator's run(): start_session, the supervisor     *)
(*             loop, the capture tasks and the front button (GPIO thread)  *)
(*   SpecApi   NovaSonicClient driven method by method by one caller       *)
(*   SpecPlay  receive loop -> audio_queue -> play_audio -> callback pool  *)
(*             -> motors, and the shutdown sequence of run()               *)
(*   SpecDuty  Billy.drive_mouth on a time line                            *)
(*   SpecStart Spec with the receive loop, SpecWag SpecPlay with idle_wag  *)
(*   SpecRecv  the receive loop of the client, event by event              *)
(*   SpecCtl   AudioMouthController and the utterance boundary             *)
(*                                                                         *)
(* Scheduling: asyncio runs one task step at a time on the event-loop      *)
(* thread; a step ends at an await.  `await self.send_event(...)` hands    *)
(* the event to the transport when it is called and is a point where the   *)
(* task may be suspended, so a pending cancellation is delivered there.    *)
(* The GPIO thread and the callback pool's worker threads interleave with  *)
(* the event-loop thread between any two field accesses.                   *)
(***************************************************************************)
EXTENDS Integers, Sequences, FiniteSets, TLC

VARIABLES
    \* ---- NovaSonicClient
    is_active,            \* self.is_active
    stream,               \* self.stream: "none" | "open" | "closed"
    trace,                \* events handed to stream.input_stream.send, in order
    \* ---- BillyNova (orchestrator)
    listening_active,     \* self.listening_active
    audio_capture_task,   \* self.audio_capture_task: 0 is None, else a capture task
    pending_text,         \* self.pending_text: "none" | "goodbye" | "greeting"
    nText,                \* say_text calls so far (one content name each)
    cap,                  \* capture task -> [pc, cancel, device (the input
                          \*   device: "none" | "open" | "released"), block (its
                          \*   audio block: "none" | "open" | "closed")]
    sup,                  \* run(): [pc, text, back]
    btn,                  \* GPIO thread in on_button_press: [pc]
    presses,              \* front-button presses so far
    \* ---- method-by-method caller
    lastCall,             \* the last method called: [op, prev (the call before),
                          \*   active (is_active at the call), raised, fault
                          \*   (the step at which the transport is broken),
                          \*   failed (the step that raised inside), reported
                          \*   (an error was printed)]
    nCalls,
    \* ---- playback and actuation
    audio_queue,          \* self.audio_queue (asyncio.Queue)
    nRecv,                \* audioOutput events received so far
    graceRecv,            \* nRecv when the grace sleep of line 334 began
    written,              \* chunks written to the output device, in order
    play,                 \* play_audio task: [pc, cancel, audio_data]
    execQ,                \* callback_executor's work queue
    worker,               \* callback_executor thread -> [pc, chunk]
    completed,            \* chunks whose _safe_callback has returned
    mouth,                \* billy.mouth.throttle: -1 | 0 | 1 (sign)
    torso,                \* billy.torso.throttle: -1 | 0 | 1 (sign)
    speaking,             \* self.speaking
    wag,                  \* idle_wag task: "sleep" (line 364) | "w368" | "w370" |
                          \*   "cancelled"
    shut,                 \* run()'s position: "start" | "s340" | "grace" | "back" |
                          \*   "ending" | "done" (the finally block is through) |
                          \*   "closed" (asyncio.run has cancelled what was left)
    \* ---- drive_mouth on a time line
    pulses,               \* mouth pulses issued within the trailing window:
                          \*   <<ms since the pulse began, on-duration ms>>
    nReq,                 \* drive_mouth requests so far
    \* ---- the receive loop (_process_responses)
    role,                 \* self.role: "None" | "USER" | "ASSISTANT"
    display_assistant_text,   \* self.display_assistant_text
    on_audio_output,      \* self.on_audio_output: "None" | "set"
    recv,                 \* the response task: "none" | "run" (suspended at line
                          \*   337) | "done"
    lastEv,               \* the last inbound event the loop was given
    nIn,                  \* inbound events so far
    invoked,              \* callbacks invoked while lastEv was handled
    logged,               \* handling lastEv ended in the print of line 386
    stage,                \* the generationStage marking of the content block
                          \*   the last contentStart opened
    \* ---- AudioMouthController
    ctl,                  \* the controller's fields
    ret,                  \* what the last process_audio_chunk returned
    prevOpening,          \* current_opening before the last call
    nFrames,              \* process_audio_chunk calls so far
    quiet,                \* consecutive calls so far with smoothed amplitude
                          \*   below min_threshold
    zeros,                \* consecutive all-zero buffers so far: [n, hit (one
                          \*   of them returned 0)]
    boundary,             \* an utterance has ended since the last chunk
    lastOp                \* last controller operation: "none" | "process" |
                          \*   "empty" | "reset" | "end"

clientVars == <<is_active, stream, trace>>
orchVars   == <<listening_active, audio_capture_task, pending_text, nText,
               cap, sup, btn, presses>>
apiVars    == <<lastCall, nCalls>>
playVars   == <<audio_queue, nRecv, graceRecv, written, play, execQ, worker, completed,
               mouth, torso, speaking, wag, shut>>
playVars_noShut == <<audio_queue, nRecv, graceRecv, written, play, execQ, worker,
                     completed, mouth, torso, speaking, wag>>
dutyVars   == <<pulses, nReq>>
recvVars   == <<role, display_assistant_text, on_audio_output, recv, lastEv,
               nIn, invoked, logged, stage>>
ctlVars    == <<ctl, ret, prevOpening, nFrames, quiet, zeros, boundary, lastOp>>
orchVars_noSup == <<listening_active, audio_capture_task, pending_text, nText,
                    cap, btn, presses>>
vars       == <<clientVars, orchVars, apiVars, playVars, dutyVars, recvVars, ctlVars>>

(***************************************************************************)
(* Bounds of the model                                                     *)
(***************************************************************************)
MaxCalls == 5
MaxCapture == 3      \* capture tasks created
MaxPress == 3        \* front-button presses
MaxTrace == 12       \* events handed to the transport
MaxChunks == 3       \* audioOutput events received
MaxRequests == 17    \* drive_mouth calls
MaxStartPress == 2   \* SpecStart: front-button presses
MaxStartCapture == 2 \* SpecStart: capture tasks created
MaxStartChunks == 1  \* SpecStart: audioOutput events received
MaxInbound == 4      \* SpecRecv: inbound events
MaxFrames == 6       \* SpecCtl: non-empty buffers given to process_audio_chunk

\* ThreadPoolExecutor(max_workers=2)
max_workers == 2

(***************************************************************************)
(* Outbound events.  A content name is fixed per client object:            *)
(* content_name for the system prompt, audio_content_name for every audio  *)
(* block; say_text makes one per call.                                     *)
(***************************************************************************)
content_name       == "content"
audio_content_name == "audio"
\* say_text reusing the audio block's name: a plausible slip.
TextName_audio(k)  == audio_content_name

\* say_text: content_name = f"text_{time.time()}", the k-th call's name
TextName(k)        == "text_" \o ToString(k)

Ev(e, n) == [ev |-> e, name |-> n]

SessionStart    == Ev("sessionStart", "-")
PromptStart     == Ev("promptStart", "-")
PromptEnd       == Ev("promptEnd", "-")
SessionEnd      == Ev("sessionEnd", "-")
ContentStart(n) == Ev("contentStart", n)
ContentEnd(n)   == Ev("contentEnd", n)
TextInput(n)    == Ev("textInput", n)
AudioInput      == Ev("audioInput", audio_content_name)

IsPayload(e) == e.ev \in {"textInput", "audioInput"}

(***************************************************************************)
(* NovaSonicClient methods as functions of (is_active, stream, trace).     *)
(* Each returns the new trace and whether the call raised.                 *)
(***************************************************************************)
\* send_event: self.stream.input_stream.send(event)
send_event(st, tr, e) ==
    IF st = "open"
    THEN [trace |-> Append(tr, e), raised |-> FALSE]
    ELSE [trace |-> tr, raised |-> TRUE]

start_audio_input(st, tr) == send_event(st, tr, ContentStart(audio_content_name))

end_audio_input(st, tr) == send_event(st, tr, ContentEnd(audio_content_name))

\* The guard dropped: a plausible slip.
send_audio_chunk_unguarded(act, st, tr) == send_event(st, tr, AudioInput)

send_audio_chunk(act, st, tr) ==
    IF ~act
    THEN [trace |-> tr, raised |-> FALSE]
    ELSE send_event(st, tr, AudioInput)

\* The system prompt sent before its block is opened: a plausible slip.
StartSessionEvents_text_first ==
    << SessionStart, PromptStart, TextInput(content_name),
       ContentStart(content_name), ContentEnd(content_name) >>

\* The five events of start_session, in order.
StartSessionEvents ==
    << SessionStart, PromptStart, ContentStart(content_name),
       TextInput(content_name), ContentEnd(content_name) >>

(***************************************************************************)
(* The state after construction (NovaSonicClient.__init__,                 *)
(* BillyNova.__init__, Billy.__init__)                                     *)
(***************************************************************************)
InitClient ==
    /\ is_active = FALSE
    /\ stream = "none"
    /\ trace = << >>

InitOrch ==
    /\ listening_active = FALSE
    /\ audio_capture_task = 0
    /\ pending_text = "none"
    /\ nText = 0
    /\ cap = << >>
    /\ sup = [pc |-> "start", text |-> "none", back |-> "none"]
    /\ btn = [pc |-> "idle"]
    /\ presses = 0

NoCall == [op |-> "none", prev |-> "none", active |-> FALSE, raised |-> FALSE,
           fault |-> "none", failed |-> "none", reported |-> FALSE]

InitApiVars ==
    /\ lastCall = NoCall
    /\ nCalls = 0

InitPlay ==
    /\ audio_queue = << >>
    /\ nRecv = 0
    /\ graceRecv = 0
    /\ written = << >>
    /\ play = [pc |-> "none", cancel |-> FALSE, audio_data |-> 0, device_rate |-> 0]
    /\ execQ = << >>
    /\ worker = [w \in 1..max_workers |-> [pc |-> "idle", chunk |-> 0]]
    /\ completed = {}
    /\ mouth = 0
    /\ torso = 0
    /\ speaking = FALSE
    /\ wag = "sleep"
    /\ shut = "start"

InitDuty ==
    /\ pulses = << >>
    /\ nReq = 0

\* AudioMouthController.__init__, lines 29-33
FreshController ==
    [amplitude_history |-> << >>, current_opening |-> 0, target_opening |-> 0,
     is_speaking |-> FALSE, silence_counter |-> 0]

InitCtl ==
    /\ ctl = FreshController
    /\ ret = 0
    /\ prevOpening = 0
    /\ nFrames = 0
    /\ quiet = 0
    /\ zeros = [n |-> 0, hit |-> FALSE]
    /\ boundary = FALSE
    /\ lastOp = "none"

\* An inbound event: its type, and the fields the loop reads from it
InEv(t, r, g, c, f) ==
    [type |-> t, role |-> r, stage |-> g, content |-> c, cbFails |-> f]

NoEvent == InEv("none", "-", "-", "-", FALSE)

\* NovaSonicClient.__init__, lines 74-75 and 84-86, with on_audio_output
\* as the owner of the client leaves or sets it
InitRecvWith(cb) ==
    /\ role = "None"
    /\ display_assistant_text = FALSE
    /\ on_audio_output = cb
    /\ recv = "none"
    /\ lastEv = NoEvent
    /\ nIn = 0
    /\ invoked = {}
    /\ logged = FALSE
    /\ stage = "none"

\* BillyNova.__init__, line 163: self.client.on_audio_output = None
InitRecvVars == InitRecvWith("None")

(***************************************************************************)
(* SpecApi: one caller, one method call at a time, each awaited to its end *)
(***************************************************************************)
Called(op, raised) ==
    /\ nCalls < MaxCalls
    /\ nCalls' = nCalls + 1
    /\ lastCall' = [op |-> op, prev |-> lastCall.op, active |-> is_active,
                    raised |-> raised, fault |-> "none", failed |-> "none",
                    reported |-> FALSE]

ApiStartSession ==
    /\ ~is_active
    /\ stream' = "open"
    /\ is_active' = TRUE
    /\ trace' = trace \o StartSessionEvents
    /\ Called("start_session", FALSE)
    /\ UNCHANGED <<orchVars, playVars, dutyVars, recvVars, ctlVars>>

ApiStartAudioInput ==
    LET r == start_audio_input(stream, trace) IN
    /\ trace' = r.trace
    /\ Called("start_audio_input", r.raised)
    /\ UNCHANGED <<is_active, stream, orchVars, playVars, dutyVars, recvVars, ctlVars>>

ApiSendAudioChunk ==
    LET r == send_audio_chunk(is_active, stream, trace) IN
    /\ trace' = r.trace
    /\ Called("send_audio_chunk", r.raised)
    /\ UNCHANGED <<is_active, stream, orchVars, playVars, dutyVars, recvVars, ctlVars>>

ApiEndAudioInput ==
    LET r == end_audio_input(stream, trace) IN
    /\ trace' = r.trace
    /\ Called("end_audio_input", r.raised)
    /\ UNCHANGED <<is_active, stream, orchVars, playVars, dutyVars, recvVars, ctlVars>>

\* The step of end_session at which the transport raises, if any
EndFailures == {"none", "promptEnd", "sessionEnd", "close"}

\* The transport closed before the two events are sent: a plausible slip.
end_session_close_first(act, st, tr, fail) ==
    IF ~act
    THEN [trace |-> tr, stream |-> st, failed |-> "none"]
    ELSE IF fail = "close"
    THEN [trace |-> tr, stream |-> st, failed |-> "close"]
    ELSE LET r1 == send_event("closed", tr, PromptEnd) IN
         [trace |-> r1.trace, stream |-> "closed", failed |-> "promptEnd"]

\* The early return of line 299 dropped: a plausible slip.
end_session_unguarded(act, st, tr, fail) ==
    LET r1 == send_event(st, tr, PromptEnd) IN
    IF fail = "promptEnd" \/ r1.raised
    THEN [trace |-> tr, stream |-> st, failed |-> "promptEnd"]
    ELSE LET r2 == send_event(st, r1.trace, SessionEnd) IN
         IF fail = "sessionEnd" \/ r2.raised
         THEN [trace |-> r1.trace, stream |-> st, failed |-> "sessionEnd"]
         ELSE IF fail = "close"
         THEN [trace |-> r2.trace, stream |-> st, failed |-> "close"]
         ELSE [trace |-> r2.trace, stream |-> "closed", failed |-> "none"]

\* end_session: returns at once when inactive; else promptEnd, sessionEnd,
\* input_stream.close(), the first exception ending the try block (lines
\* 304-329).  failed is the step that raised.
end_session(act, st, tr, fail) ==
    IF ~act
    THEN [trace |-> tr, stream |-> st, failed |-> "none"]
    ELSE LET r1 == send_event(st, tr, PromptEnd) IN
         IF fail = "promptEnd" \/ r1.raised
         THEN [trace |-> tr, stream |-> st, failed |-> "promptEnd"]
         ELSE LET r2 == send_event(st, r1.trace, SessionEnd) IN
              IF fail = "sessionEnd" \/ r2.raised
              THEN [trace |-> r1.trace, stream |-> st, failed |-> "sessionEnd"]
              ELSE IF fail = "close"
              THEN [trace |-> r2.trace, stream |-> st, failed |-> "close"]
              ELSE [trace |-> r2.trace, stream |-> "closed", failed |-> "none"]

\* What end_session tells about a failure: `except Exception: pass` (lines
\* 327-329) prints nothing and raises nothing.
end_session_reports(act, failed) == FALSE

\* end_session called; the finally of lines 330-331 clears is_active
ApiEndSession ==
    /\ nCalls < MaxCalls
    /\ \E fail \in EndFailures :
         LET r == end_session(is_active, stream, trace, fail) IN
         /\ trace' = r.trace
         /\ stream' = r.stream
         /\ lastCall' = [op |-> "end_session", prev |-> lastCall.op,
                         active |-> is_active, raised |-> FALSE,
                         fault |-> fail, failed |-> r.failed,
                         reported |-> end_session_reports(is_active, r.failed)]
    /\ is_active' = FALSE
    /\ nCalls' = nCalls + 1
    /\ UNCHANGED <<orchVars, playVars, dutyVars, recvVars, ctlVars>>


(***************************************************************************)
(* Spec: BillyNova.run() on the Raspberry Pi build (BUTTON_AVAILABLE), so  *)
(* listening starts off and the front button toggles it.                   *)
(***************************************************************************)
\* The supervisor is suspended at an await: other event-loop tasks may step.
SupAwaitPcs == {"say1", "say2", "say3", "s340", "f314", "f323"}
LoopFree == sup.pc \in SupAwaitPcs

\* An event is handed to the transport (the model stops at MaxTrace events).
Emit(e) ==
    /\ Len(trace) < MaxTrace
    /\ trace' = send_event(stream, trace, e).trace

NewTask == [pc |-> "new", cancel |-> FALSE, device |-> "none", block |-> "none"]

\* asyncio.create_task(self.client.capture_audio()) assigned to the field
CreateCapture ==
    /\ Len(cap) < MaxCapture
    /\ cap' = Append(cap, NewTask)
    /\ audio_capture_task' = Len(cap) + 1

\* Task.cancel(): a no-op on a finished task, else a request delivered at
\* the task's next step
Cancelled(c, t) ==
    IF t = 0 \/ c[t].pc = "done" THEN c
    ELSE [c EXCEPT ![t].cancel = TRUE]

Done(t) == cap[t].pc = "done"

---------------------------------------------------------------------------
\* What may fail while the session is established: the credentials
\* (line 111), the client or the endpoint (lines 120-125, 144)
ConnectFailures == {"none", "credentials", "endpoint"}

\* A failure to connect swallowed, start_session going on to its sends: a
\* plausible slip.
start_session_open_swallowed(fail) ==
    [stream |-> IF fail = "none" THEN "open" ELSE "none",
     is_active |-> TRUE, pc |-> "session"]

\* start_session, lines 137-148: nothing catches an exception here, and
\* run() calls start_session outside its try block (line 288), so run()
\* ends with the exception; else the stream is open and is_active set.
start_session_open(fail) ==
    IF fail = "none"
    THEN [stream |-> "open", is_active |-> TRUE, pc |-> "session"]
    ELSE [stream |-> "none", is_active |-> FALSE, pc |-> "raised"]

StartSessionOpen ==
    /\ sup.pc = "start"
    /\ \E fail \in ConnectFailures :
         /\ stream' = start_session_open(fail).stream
         /\ is_active' = start_session_open(fail).is_active
         /\ sup' = [sup EXCEPT !.pc = start_session_open(fail).pc]
    /\ UNCHANGED <<trace, orchVars_noSup, apiVars, playVars, dutyVars, recvVars, ctlVars>>

\* start_session, lines 150-232: the next of its five events is sent
StartSessionSend ==
    /\ sup.pc = "session"
    /\ Len(trace) < Len(StartSessionEvents)
    /\ trace' = send_event(stream, trace, StartSessionEvents[Len(trace) + 1]).trace
    /\ UNCHANGED <<is_active, stream, orchVars, apiVars, playVars, dutyVars, recvVars, ctlVars>>

\* start_session line 235 and run() lines 290-297: the response task and
\* the playback task are created, the capture task only if listening is on.
SupStartSession ==
    /\ sup.pc = "session"
    /\ Len(trace) = Len(StartSessionEvents)
    /\ IF listening_active
       THEN CreateCapture
       ELSE UNCHANGED <<cap, audio_capture_task>>
    /\ sup' = [sup EXCEPT !.pc = "s306"]
    /\ UNCHANGED <<clientVars, listening_active, pending_text, nText, btn,
                   presses, apiVars, playVars, dutyVars, recvVars, ctlVars>>

\* line 306: the restart condition is evaluated
SupCheckRestart ==
    /\ sup.pc = "s306"
    /\ sup' = [sup EXCEPT !.pc =
                 IF audio_capture_task # 0 /\ Done(audio_capture_task)
                    /\ listening_active
                 THEN "s308" ELSE "s311"]
    /\ UNCHANGED <<clientVars, orchVars_noSup, apiVars, playVars, dutyVars, recvVars, ctlVars>>

\* line 308: the replacement is created and assigned
SupRestartCapture ==
    /\ sup.pc = "s308"
    /\ CreateCapture
    /\ sup' = [sup EXCEPT !.pc = "s311"]
    /\ UNCHANGED <<clientVars, listening_active, pending_text, nText, btn,
                   presses, apiVars, playVars, dutyVars, recvVars, ctlVars>>

\* lines 311-312: if self.pending_text: text = self.pending_text
SupReadPending ==
    /\ sup.pc = "s311"
    /\ sup' = IF pending_text # "none"
              THEN [sup EXCEPT !.pc = "s313", !.text = pending_text]
              ELSE [sup EXCEPT !.pc = "s317"]
    /\ UNCHANGED <<clientVars, orchVars_noSup, apiVars, playVars, dutyVars, recvVars, ctlVars>>

\* say_text up to its first await: the content name is made and the
\* contentStart handed to the transport
SayTextBegin(back) ==
    /\ nText' = nText + 1
    /\ Emit(ContentStart(TextName(nText + 1)))
    /\ sup' = [sup EXCEPT !.pc = "say1", !.back = back]

\* lines 313-314: self.pending_text = None; await self.say_text(text)
SupClearPending ==
    /\ sup.pc = "s313"
    /\ pending_text' = "none"
    /\ SayTextBegin("s317")
    /\ UNCHANGED <<is_active, stream, listening_active, audio_capture_task, cap,
                   btn, presses, apiVars, playVars, dutyVars, recvVars, ctlVars>>

\* say_text, lines 257 and 270, then the return to run()
SupSayText ==
    /\ sup.pc \in {"say1", "say2", "say3"}
    /\ CASE sup.pc = "say1" ->
              /\ Emit(TextInput(TextName(nText)))
              /\ sup' = [sup EXCEPT !.pc = "say2"]
         [] sup.pc = "say2" ->
              /\ Emit(ContentEnd(TextName(nText)))
              /\ sup' = [sup EXCEPT !.pc = "say3"]
         [] sup.pc = "say3" ->
              /\ trace' = trace
              /\ sup' = [sup EXCEPT !.pc = sup.back, !.text = "none", !.back = "none"]
    /\ UNCHANGED <<is_active, stream, orchVars_noSup, apiVars, playVars, dutyVars, recvVars, ctlVars>>

\* lines 317-318: the gate is read and the inactivity timeout tested
\* (time.time() - last_activity_time is the environment's)
SupInactivity ==
    /\ sup.pc = "s317"
    /\ \E expired \in BOOLEAN :
         sup' = [sup EXCEPT !.pc = IF listening_active /\ expired
                                   THEN "s320" ELSE "s328"]
    /\ UNCHANGED <<clientVars, orchVars_noSup, apiVars, playVars, dutyVars, recvVars, ctlVars>>

\* lines 320-321: the gate is turned off and the task field is tested; with
\* no task the goodbye of line 325 follows at once
SupTimeoutGateOff ==
    /\ sup.pc = "s320"
    /\ listening_active' = FALSE
    /\ IF audio_capture_task # 0
       THEN /\ sup' = [sup EXCEPT !.pc = "s322"]
            /\ UNCHANGED <<nText, trace>>
       ELSE SayTextBegin("s328")
    /\ UNCHANGED <<is_active, stream, audio_capture_task, pending_text, cap,
                   btn, presses, apiVars, playVars, dutyVars, recvVars, ctlVars>>

\* line 322: self.audio_capture_task.cancel().  The field is read again: if
\* the GPIO thread has set it to None meanwhile (line 199) the call raises
\* AttributeError, which run() catches at line 343.
SupTimeoutCancel ==
    /\ sup.pc = "s322"
    /\ IF audio_capture_task = 0
       THEN /\ sup' = [sup EXCEPT !.pc = "failed"]
            /\ cap' = cap
       ELSE /\ sup' = [sup EXCEPT !.pc = "s323"]
            /\ cap' = Cancelled(cap, audio_capture_task)
    /\ UNCHANGED <<clientVars, listening_active, audio_capture_task,
                   pending_text, nText, btn, presses, apiVars, playVars,
                   dutyVars, recvVars, ctlVars>>

\* lines 323-325: the task is forgotten and the goodbye said
SupTimeoutGoodbye ==
    /\ sup.pc = "s323"
    /\ audio_capture_task' = 0
    /\ SayTextBegin("s328")
    /\ UNCHANGED <<is_active, stream, listening_active, pending_text, cap, btn,
                   presses, apiVars, playVars, dutyVars, recvVars, ctlVars>>

\* A KeyboardInterrupt, or the cancellation of run()'s task, reaches run()
\* in the sleep of line 340: lines 341-346, then the finally block.
SupInterrupt ==
    /\ sup.pc = "s340"
    /\ sup' = [sup EXCEPT !.pc = "failed"]
    /\ UNCHANGED <<clientVars, orchVars_noSup, apiVars, playVars, dutyVars, recvVars, ctlVars>>

\* The finally of run() after an exception in the loop, lines 347-358:
\* end_session step by step, then the capture task of the field is
\* cancelled and run() returns.
SupFinally ==
    /\ sup.pc \in {"failed", "f314", "f323"}
    /\ CASE sup.pc = "failed" ->
              /\ Emit(PromptEnd)
              /\ sup' = [sup EXCEPT !.pc = "f314"]
              /\ UNCHANGED <<is_active, stream, cap>>
         [] sup.pc = "f314" ->
              /\ Emit(SessionEnd)
              /\ sup' = [sup EXCEPT !.pc = "f323"]
              /\ UNCHANGED <<is_active, stream, cap>>
         [] sup.pc = "f323" ->
              /\ trace' = trace
              /\ stream' = "closed"
              /\ is_active' = FALSE
              /\ cap' = Cancelled(cap, audio_capture_task)
              /\ sup' = [sup EXCEPT !.pc = "returned"]
    /\ UNCHANGED <<listening_active, audio_capture_task, pending_text, nText,
                   btn, presses, apiVars, playVars, dutyVars, recvVars, ctlVars>>

\* line 328
SupCheckStart ==
    /\ sup.pc = "s328"
    /\ sup' = [sup EXCEPT !.pc =
                 IF listening_active /\ audio_capture_task = 0
                 THEN "s330" ELSE "s340"]
    /\ UNCHANGED <<clientVars, orchVars_noSup, apiVars, playVars, dutyVars, recvVars, ctlVars>>

\* line 330, then the await of line 340
SupStartCapture ==
    /\ sup.pc = "s330"
    /\ CreateCapture
    /\ sup' = [sup EXCEPT !.pc = "s340"]
    /\ UNCHANGED <<clientVars, listening_active, pending_text, nText, btn,
                   presses, apiVars, playVars, dutyVars, recvVars, ctlVars>>

\* line 340: await asyncio.sleep(0.1) returns, the next tick begins
SupSleep ==
    /\ sup.pc = "s340"
    /\ sup' = [sup EXCEPT !.pc = "s306"]
    /\ UNCHANGED <<clientVars, orchVars_noSup, apiVars, playVars, dutyVars, recvVars, ctlVars>>

---------------------------------------------------------------------------
(* capture_audio, one action per step between awaits.  pc:                 *)
(*   new       created, not yet run                                        *)
(*   starting  suspended in `await self.start_audio_input()` (line 451)    *)
(*   loop      suspended in the try block (lines 456-457)                  *)
(*   closing   suspended in `await self.end_audio_input()` (line 465)      *)
(*   done                                                                  *)

\* The event loop runs ready handles first in, first out: a task created
\* after another task's cancel() takes its first step after that
\* cancellation has been delivered.
FirstStepReady(t) == \A u \in 1..(t - 1) : ~cap[u].cancel

\* The finally block of capture_audio: device released, then the contentEnd
\* is handed to the transport and the task suspends in the send.
CaptureCleanup(t) ==
    /\ Len(trace) < MaxTrace
    /\ trace' = end_audio_input(stream, trace).trace
    /\ cap' = [cap EXCEPT ![t].pc = "closing", ![t].cancel = FALSE,
                          ![t].device = "released", ![t].block = "closed"]

\* Lines 438-451.  A cancellation requested before the first step ends the
\* task before any of its code runs; p.open may raise; the transport may
\* raise in the send of start_audio_input, which is outside the try block.
CaptureFirst(t) ==
    /\ LoopFree
    /\ cap[t].pc = "new"
    /\ FirstStepReady(t)
    /\ \/ /\ cap[t].cancel
          /\ cap' = [cap EXCEPT ![t].pc = "done", ![t].cancel = FALSE]
          /\ trace' = trace
       \/ /\ ~cap[t].cancel
          /\ \/ /\ cap' = [cap EXCEPT ![t].pc = "done"]       \* p.open raised
                /\ trace' = trace
             \/ /\ cap' = [cap EXCEPT ![t].pc = "done",     \* the send of 451 raised
                                      ![t].device = "open"]
                /\ trace' = trace
             \/ /\ Len(trace) < MaxTrace
                /\ trace' = start_audio_input(stream, trace).trace
                /\ cap' = [cap EXCEPT ![t].pc = "starting", ![t].device = "open",
                                      ![t].block = "open"]
    /\ UNCHANGED <<is_active, stream, listening_active, audio_capture_task,
                   pending_text, nText, sup, btn, presses, apiVars, playVars,
                   dutyVars, recvVars, ctlVars>>

\* One pass of the body of `while self.is_active` (lines 454-457): the read
\* may raise; the chunk goes to send_audio_chunk.
CaptureIterate(t) ==
    IF ~is_active
    THEN CaptureCleanup(t)
    ELSE \/ CaptureCleanup(t)                                 \* stream.read raised
         \/ /\ Len(trace) < MaxTrace
            /\ trace' = send_audio_chunk(is_active, stream, trace).trace
            /\ cap' = [cap EXCEPT ![t].pc = "loop"]

\* Resumed from the await of line 451.  A CancelledError raised there is
\* outside the try block: the task ends with no cleanup.
CaptureStarted(t) ==
    /\ LoopFree
    /\ cap[t].pc = "starting"
    /\ IF cap[t].cancel
       THEN /\ cap' = [cap EXCEPT ![t].pc = "done", ![t].cancel = FALSE]
            /\ trace' = trace
       ELSE CaptureIterate(t)
    /\ UNCHANGED <<is_active, stream, listening_active, audio_capture_task,
                   pending_text, nText, sup, btn, presses, apiVars, playVars,
                   dutyVars, recvVars, ctlVars>>

\* Resumed inside the try block: a CancelledError there runs the finally.
CaptureLoop(t) ==
    /\ LoopFree
    /\ cap[t].pc = "loop"
    /\ IF cap[t].cancel
       THEN CaptureCleanup(t)
       ELSE CaptureIterate(t)
    /\ UNCHANGED <<is_active, stream, listening_active, audio_capture_task,
                   pending_text, nText, sup, btn, presses, apiVars, playVars,
                   dutyVars, recvVars, ctlVars>>

\* Resumed from the await of line 465: the task is done.
CaptureClosed(t) ==
    /\ LoopFree
    /\ cap[t].pc = "closing"
    /\ cap' = [cap EXCEPT ![t].pc = "done", ![t].cancel = FALSE]
    /\ UNCHANGED <<clientVars, listening_active, audio_capture_task,
                   pending_text, nText, sup, btn, presses, apiVars, playVars,
                   dutyVars, recvVars, ctlVars>>

---------------------------------------------------------------------------
(* on_button_press on the GPIO thread, one action per field access         *)

\* lines 194-196 and 202-205: the gate is read and toggled
ButtonPress ==
    /\ btn.pc = "idle"
    /\ presses < MaxPress
    /\ presses' = presses + 1
    /\ listening_active' = ~listening_active
    /\ btn' = [pc |-> IF listening_active THEN "b197" ELSE "b207"]
    /\ UNCHANGED <<clientVars, audio_capture_task, pending_text, nText, cap,
                   sup, apiVars, playVars, dutyVars, recvVars, ctlVars>>

\* lines 197-198: if self.audio_capture_task: self.audio_capture_task.cancel()
ButtonCancel ==
    /\ btn.pc = "b197"
    /\ cap' = Cancelled(cap, audio_capture_task)
    /\ btn' = [pc |-> IF audio_capture_task # 0 THEN "b199" ELSE "b201"]
    /\ UNCHANGED <<clientVars, listening_active, audio_capture_task,
                   pending_text, nText, sup, presses, apiVars, playVars,
                   dutyVars, recvVars, ctlVars>>

\* line 199: self.audio_capture_task = None
ButtonForget ==
    /\ btn.pc = "b199"
    /\ audio_capture_task' = 0
    /\ btn' = [pc |-> "b201"]
    /\ UNCHANGED <<clientVars, listening_active, pending_text, nText, cap, sup,
                   presses, apiVars, playVars, dutyVars, recvVars, ctlVars>>

\* lines 201 and 207: the announcement is queued
ButtonQueueText ==
    /\ btn.pc \in {"b201", "b207"}
    /\ pending_text' = IF btn.pc = "b201" THEN "goodbye" ELSE "greeting"
    /\ btn' = [pc |-> "idle"]
    /\ UNCHANGED <<clientVars, listening_active, audio_capture_task, nText,
                   cap, sup, presses, apiVars, playVars, dutyVars, recvVars, ctlVars>>

Tasks == 1..Len(cap)

Init == InitClient /\ InitOrch /\ InitApiVars /\ InitPlay /\ InitDuty
          /\ InitRecvVars /\ InitCtl

Next ==
    \/ StartSessionOpen
    \/ StartSessionSend
    \/ SupStartSession
    \/ SupCheckRestart
    \/ SupRestartCapture
    \/ SupReadPending
    \/ SupClearPending
    \/ SupSayText
    \/ SupInactivity
    \/ SupTimeoutGateOff
    \/ SupTimeoutCancel
    \/ SupTimeoutGoodbye
    \/ SupInterrupt
    \/ SupFinally
    \/ SupCheckStart
    \/ SupStartCapture
    \/ SupSleep
    \/ \E t \in Tasks : CaptureFirst(t)
    \/ \E t \in Tasks : CaptureStarted(t)
    \/ \E t \in Tasks : CaptureLoop(t)
    \/ \E t \in Tasks : CaptureClosed(t)
    \/ ButtonPress
    \/ ButtonCancel
    \/ ButtonForget
    \/ ButtonQueueText

Spec == Init /\ [][Next]_vars


(***************************************************************************)
(* SpecPlay: the receive loop, the playback task, the callback pool, the   *)
(* supervisor's playback restart and torso return, and the shutdown        *)
(* sequence.  Chunks are numbered in the order audioOutput events arrive.  *)
(***************************************************************************)
\* asyncio.Queue: put appends, get takes the oldest item
queue_put(q, c) == Append(q, c)

\* get taking the newest item instead: a plausible slip.
queue_get_newest(q) == [item |-> q[Len(q)], rest |-> SubSeq(q, 1, Len(q) - 1)]

queue_get(q) == [item |-> Head(q), rest |-> Tail(q)]

\* The playback task is inside a step (between the write and the submit):
\* the event-loop thread is busy.
PlayBusy == play.pc = "submit"

\* Lines 28-32 and 393: the canonical output rate and the rates tried, in
\* order, when the device is opened
OUTPUT_SAMPLE_RATE == 24000
candidate_rates == <<24000, 48000, 44100>>

\* A playback task: device_rate is 0 until a rate has opened; audio_data is
\* the chunk the task holds, 0 once it has been handed on.
NewPlay == [pc |-> "new", cancel |-> FALSE, audio_data |-> 0, device_rate |-> 0]
PlayDone == [pc |-> "done", cancel |-> FALSE, audio_data |-> 0, device_rate |-> 0]

\* Line 423: the chunk is resampled when the device runs at a fallback rate
NeedsResample(rate) == rate # OUTPUT_SAMPLE_RATE

\* run(), lines 288-340 up to the first sleep: session started, the tasks
\* created, the first pass of the loop finds nothing to do.
RunStart ==
    /\ shut = "start"
    /\ stream' = "open"
    /\ is_active' = TRUE
    /\ trace' = trace \o StartSessionEvents
    /\ play' = NewPlay
    /\ shut' = "s340"
    /\ UNCHANGED <<orchVars, apiVars, audio_queue, nRecv, graceRecv, written, execQ,
                   worker, completed, mouth, torso, speaking, wag, dutyVars, recvVars, ctlVars>>

\* start_session line 235 has run: the task running _process_responses exists
ResponseTask == sup.pc \notin {"start", "session", "raised"} \/ shut # "start"

\* _process_responses, lines 372-375: an audioOutput event is decoded and
\* put on the queue (on_audio_output is None in BillyNova)
ReceiveAudio ==
    /\ is_active
    /\ ResponseTask
    /\ ~PlayBusy
    /\ nRecv < MaxChunks
    /\ nRecv' = nRecv + 1
    /\ audio_queue' = queue_put(audio_queue, nRecv + 1)
    /\ UNCHANGED <<clientVars, orchVars, apiVars, graceRecv, written, play,
                   execQ, worker, completed, mouth, torso, speaking, wag, shut,
                   dutyVars, recvVars, ctlVars>>

\* The device opened only once the first chunk has been taken, and the
\* chunk gone when no rate opens: a plausible slip.
PlayStart_takes_first ==
    /\ play.pc = "new"
    /\ \/ /\ play.cancel
          /\ play' = PlayDone
          /\ audio_queue' = audio_queue
       \/ /\ ~play.cancel
          /\ \/ /\ play' = PlayDone
                /\ audio_queue' = IF audio_queue = << >> THEN audio_queue
                                  ELSE Tail(audio_queue)
             \/ /\ \E i \in 1..Len(candidate_rates) :
                     play' = [play EXCEPT !.pc = IF is_active THEN "get" ELSE "done",
                                          !.device_rate = candidate_rates[i]]
                /\ audio_queue' = audio_queue
    /\ UNCHANGED <<clientVars, orchVars, apiVars, nRecv, graceRecv, written,
                   execQ, worker, completed, mouth, torso, speaking, wag, shut,
                   dutyVars, recvVars, ctlVars>>

\* play_audio, lines 392-421: a cancellation before the first step ends the
\* task; the device may open at no candidate rate (lines 413-416: reported,
\* the task returns); else the loop is entered.
PlayStart ==
    /\ play.pc = "new"
    /\ \/ /\ play.cancel
          /\ play' = PlayDone
       \/ /\ ~play.cancel
          /\ \/ play' = PlayDone                       \* no rate opens
             \/ \E i \in 1..Len(candidate_rates) :
                  play' = [play EXCEPT !.pc = IF is_active THEN "get" ELSE "done",
                                       !.device_rate = candidate_rates[i]]
    /\ UNCHANGED <<clientVars, orchVars, apiVars, audio_queue, nRecv, graceRecv, written,
                   execQ, worker, completed, mouth, torso, speaking, wag, shut,
                   dutyVars, recvVars, ctlVars>>

\* The callback dispatched when the chunk is taken, before the device
\* write: a plausible slip.
PlayWrite_dispatch_first ==
    /\ play.pc = "get"
    /\ ~play.cancel
    /\ audio_queue # << >>
    /\ LET g == queue_get(audio_queue) IN
         /\ audio_queue' = g.rest
         /\ execQ' = Append(execQ, g.item)
         /\ written' = written
         /\ play' = [play EXCEPT !.pc = "submit", !.audio_data = g.item]
    /\ UNCHANGED <<clientVars, orchVars, apiVars, nRecv, graceRecv, worker, completed,
                   mouth, torso, speaking, wag, shut, dutyVars, recvVars, ctlVars>>

\* Lines 422-425: the next chunk is taken from the queue and written to the
\* device.  At a fallback rate line 424 calls _resample_pcm, a name that is
\* bound nowhere in the module: the NameError is caught at line 428 and the
\* task ends (lines 430-434) holding the chunk.  A write that raises ends
\* the task the same way.
PlayWrite ==
    /\ play.pc = "get"
    /\ ~play.cancel
    /\ audio_queue # << >>
    /\ LET g == queue_get(audio_queue) IN
         /\ audio_queue' = g.rest
         /\ \/ /\ ~NeedsResample(play.device_rate)
               /\ written' = Append(written, g.item)
               /\ play' = [play EXCEPT !.pc = "submit", !.audio_data = g.item]
            \/ /\ written' = written
               /\ play' = [play EXCEPT !.pc = "done", !.audio_data = g.item]
    /\ UNCHANGED <<clientVars, orchVars, apiVars, nRecv, graceRecv, execQ, worker,
                   completed, mouth, torso, speaking, wag, shut, dutyVars, recvVars, ctlVars>>

\* Lines 426-427 and the loop test of line 421: the callback is submitted
\* to the pool; the task goes on only while the session is active.
PlaySubmit ==
    /\ play.pc = "submit"
    /\ execQ' = Append(execQ, play.audio_data)
    /\ play' = IF is_active
               THEN [play EXCEPT !.pc = "get", !.audio_data = 0]
               ELSE PlayDone
    /\ UNCHANGED <<clientVars, orchVars, apiVars, audio_queue, nRecv, graceRecv, written,
                   worker, completed, mouth, torso, speaking, wag, shut, dutyVars, recvVars, ctlVars>>

\* A CancelledError raised in `await self.audio_queue.get()`: the finally
\* closes the device.
PlayCancelled ==
    /\ play.pc = "get"
    /\ play.cancel
    /\ play' = PlayDone
    /\ UNCHANGED <<clientVars, orchVars, apiVars, audio_queue, nRecv, graceRecv, written,
                   execQ, worker, completed, mouth, torso, speaking, wag, shut,
                   dutyVars, recvVars, ctlVars>>

---------------------------------------------------------------------------
(* A thread of callback_executor running _safe_callback(chunk), that is    *)
(* BillyNova.on_audio_chunk.  pc:                                          *)
(*   idle   waiting for work                                               *)
(*   proc   in mouth_controller.process_audio_chunk (line 276)             *)
(*   pulse  in drive_mouth, throttle set, asleep (lines 102-103, 108-109)  *)
(*   post   throttle back at 0 (lines 104, 110), before line 280           *)
Workers == 1..max_workers

Busy(w) == worker[w].pc # "idle"

WorkerTake(w) ==
    /\ worker[w].pc = "idle"
    /\ execQ # << >>
    /\ worker' = [worker EXCEPT ![w] = [pc |-> "proc", chunk |-> Head(execQ)]]
    /\ execQ' = Tail(execQ)
    /\ UNCHANGED <<clientVars, orchVars, apiVars, audio_queue, nRecv, graceRecv, written,
                   play, completed, mouth, torso, speaking, wag, shut, dutyVars, recvVars, ctlVars>>

\* drive_mouth: +0.35 below the deadband, -intensity above it
WorkerPulseOn(w) ==
    /\ worker[w].pc = "proc"
    /\ \E deadband \in BOOLEAN : mouth' = IF deadband THEN 1 ELSE -1
    /\ worker' = [worker EXCEPT ![w].pc = "pulse"]
    /\ UNCHANGED <<clientVars, orchVars, apiVars, audio_queue, nRecv, graceRecv, written,
                   play, execQ, completed, torso, speaking, wag, shut, dutyVars, recvVars, ctlVars>>

WorkerPulseOff(w) ==
    /\ worker[w].pc = "pulse"
    /\ mouth' = 0
    /\ worker' = [worker EXCEPT ![w].pc = "post"]
    /\ UNCHANGED <<clientVars, orchVars, apiVars, audio_queue, nRecv, graceRecv, written,
                   play, execQ, completed, torso, speaking, wag, shut, dutyVars, recvVars, ctlVars>>

\* Lines 280-285: torso_start on the first chunk of an utterance, then the
\* callback returns.
WorkerFinish(w) ==
    /\ worker[w].pc = "post"
    /\ IF ~speaking
       THEN torso' = 1 /\ speaking' = TRUE
       ELSE UNCHANGED <<torso, speaking>>
    /\ completed' = completed \cup {worker[w].chunk}
    /\ worker' = [worker EXCEPT ![w] = [pc |-> "idle", chunk |-> 0]]
    /\ UNCHANGED <<clientVars, orchVars, apiVars, audio_queue, nRecv, graceRecv, written,
                   play, execQ, mouth, wag, shut, dutyVars, recvVars, ctlVars>>

---------------------------------------------------------------------------
(* The supervisor loop of run(), one action per step between awaits        *)

\* Lines 302-304 and 333-334, resumed from the sleep of line 340: a dead
\* playback task is replaced; if speaking and the queue is empty the grace
\* sleep begins.
SupTick ==
    /\ shut = "s340"
    /\ ~PlayBusy
    /\ play' = IF play.pc = "done" THEN NewPlay ELSE play
    /\ shut' = IF speaking /\ audio_queue = << >> THEN "grace" ELSE "s340"
    /\ graceRecv' = IF speaking /\ audio_queue = << >> THEN nRecv ELSE graceRecv
    /\ UNCHANGED <<clientVars, orchVars, apiVars, audio_queue, nRecv, written,
                   execQ, worker, completed, mouth, torso, speaking, wag, dutyVars, recvVars, ctlVars>>

\* Lines 335-337: still empty after the grace sleep: torso_end
SupGrace ==
    /\ shut = "grace"
    /\ ~PlayBusy
    /\ IF audio_queue = << >>
       THEN torso' = -1 /\ shut' = "back"
       ELSE torso' = torso /\ shut' = "s340"
    /\ graceRecv' = 0
    /\ UNCHANGED <<clientVars, orchVars, apiVars, audio_queue, nRecv, written,
                   play, execQ, worker, completed, mouth, speaking, wag, dutyVars, recvVars, ctlVars>>

\* Lines 338-339: torso_stop, speaking cleared
SupBack ==
    /\ shut = "back"
    /\ ~PlayBusy
    /\ torso' = 0
    /\ speaking' = FALSE
    /\ shut' = "s340"
    /\ UNCHANGED <<clientVars, orchVars, apiVars, audio_queue, nRecv, graceRecv, written,
                   play, execQ, worker, completed, mouth, wag, dutyVars, recvVars, ctlVars>>

\* An interrupt or a cancellation reaches run() at one of its awaits: the
\* finally block begins with `await self.client.end_session()`, which sends
\* promptEnd and sessionEnd and closes the input stream.
ShutdownBegin ==
    /\ shut \in {"s340", "grace", "back"}
    /\ ~PlayBusy
    /\ trace' = trace \o <<PromptEnd, SessionEnd>>
    /\ stream' = "closed"
    /\ shut' = "ending"
    /\ UNCHANGED <<is_active, orchVars, apiVars, playVars_noShut, dutyVars, recvVars, ctlVars>>

\* end_session's finally clears is_active; then lines 349-357, with no
\* await between them: the playback task is cancelled, stop_all zeroes
\* both throttles.
stop_all == [mouth |-> 0, torso |-> 0]

ShutdownFinish ==
    /\ shut = "ending"
    /\ ~PlayBusy
    /\ is_active' = FALSE
    /\ play' = IF play.pc = "done" THEN play ELSE [play EXCEPT !.cancel = TRUE]
    /\ mouth' = stop_all.mouth
    /\ torso' = stop_all.torso
    /\ shut' = "done"
    /\ UNCHANGED <<stream, trace, orchVars, apiVars, audio_queue, nRecv, graceRecv, written,
                   execQ, worker, completed, speaking, wag, dutyVars, recvVars, ctlVars>>

\* main(), line 383: run() has returned and asyncio.run, before it closes
\* the event loop, cancels every task that is still there.
RunReturn ==
    /\ shut = "done"
    /\ ~PlayBusy
    /\ shut' = "closed"
    /\ wag' = "cancelled"
    /\ play' = IF play.pc = "done" THEN play ELSE [play EXCEPT !.cancel = TRUE]
    /\ cap' = [t \in 1..Len(cap) |->
                 IF cap[t].pc = "done" THEN cap[t] ELSE [cap[t] EXCEPT !.cancel = TRUE]]
    /\ UNCHANGED <<clientVars, listening_active, audio_capture_task, pending_text,
                   nText, sup, btn, presses, apiVars, audio_queue, nRecv,
                   graceRecv, written, execQ, worker, completed, mouth, torso,
                   speaking, dutyVars, recvVars, ctlVars>>

NextPlay ==
    \/ RunStart
    \/ ReceiveAudio
    \/ PlayStart
    \/ PlayWrite
    \/ PlaySubmit
    \/ PlayCancelled
    \/ \E w \in Workers : WorkerTake(w)
    \/ \E w \in Workers : WorkerPulseOn(w)
    \/ \E w \in Workers : WorkerPulseOff(w)
    \/ \E w \in Workers : WorkerFinish(w)
    \/ SupTick
    \/ SupGrace
    \/ SupBack
    \/ ShutdownBegin
    \/ ShutdownFinish
    \/ RunReturn

SpecPlay == Init /\ [][NextPlay]_vars

(***************************************************************************)
(* SpecWag: SpecPlay with the idle_wag task and the front button           *)
(***************************************************************************)
\* The idle_wag task exists from line 297 until run() has returned; it runs
\* on the event-loop thread.
WagRuns == shut \notin {"start", "done", "closed"} /\ ~PlayBusy

\* Lines 364-367: the 3 s sleep is over; if the gate is on and nobody is
\* speaking the torso is driven forward and the task sleeps 0.15 s.
IdleWagCheck ==
    /\ WagRuns
    /\ wag = "sleep"
    /\ listening_active /\ ~speaking
    /\ torso' = 1
    /\ wag' = "w368"
    /\ UNCHANGED <<clientVars, orchVars, apiVars, audio_queue, nRecv, graceRecv,
                   written, play, execQ, worker, completed, mouth, speaking,
                   shut, dutyVars, recvVars, ctlVars>>

\* Line 369, then the sleep of line 370
IdleWagReverse ==
    /\ WagRuns
    /\ wag = "w368"
    /\ torso' = -1
    /\ wag' = "w370"
    /\ UNCHANGED <<clientVars, orchVars, apiVars, audio_queue, nRecv, graceRecv,
                   written, play, execQ, worker, completed, mouth, speaking,
                   shut, dutyVars, recvVars, ctlVars>>

\* Line 371, then the sleep of line 364
IdleWagStop ==
    /\ WagRuns
    /\ wag = "w370"
    /\ torso' = 0
    /\ wag' = "sleep"
    /\ UNCHANGED <<clientVars, orchVars, apiVars, audio_queue, nRecv, graceRecv,
                   written, play, execQ, worker, completed, mouth, speaking,
                   shut, dutyVars, recvVars, ctlVars>>

NextWag ==
    \/ NextPlay
    \/ IdleWagCheck
    \/ IdleWagReverse
    \/ IdleWagStop
    \/ ButtonPress
    \/ ButtonCancel
    \/ ButtonQueueText

SpecWag == Init /\ [][NextWag]_vars

\* C19: every write of idle_wag to the torso throttle happens while nobody
\* is speaking (torso at Rest) and the listening gate is on.
C19_WagOnlyAtRest ==
    [][ (wag' # wag /\ wag' # "cancelled") => (~speaking /\ listening_active) ]_vars

\* C22: once the finally block of run() is through, every task started for
\* the session has finished or has been cancelled: the playback task, the
\* capture tasks and the idle_wag task.
C22_TasksCancelledAfterShutdown ==
    shut = "done"
      => /\ play.pc = "done" \/ play.cancel
         /\ \A t \in Tasks : cap[t].pc = "done" \/ cap[t].cancel
         /\ wag = "cancelled"

(***************************************************************************)
(* SpecRecv: NovaSonicClient._process_responses given one inbound event    *)
(* after the other, beside the owner ending the session                    *)
(***************************************************************************)
Roles == {"USER", "ASSISTANT", "TOOL"}

\* additionalModelFields of a contentStart: absent, a JSON text with
\* generationStage SPECULATIVE or FINAL, or a text that is not JSON
Stages == {"absent", "SPECULATIVE", "FINAL", "malformed"}

\* Event types the loop has no branch for
OtherTypes == {"contentEnd", "usageEvent"}

\* What the service may deliver: "empty" has no bytes, "badjson" is not
\* JSON, "noevent" is a JSON object without the key 'event'; a field the
\* loop reads may be missing; cbFails says whether a callback invoked for
\* the event raises.
Inbound ==
    {InEv("contentStart", r, g, "-", FALSE) : r \in Roles \cup {"missing"}, g \in Stages}
      \cup {InEv(t, "-", "-", c, f) : t \in {"textOutput", "audioOutput"},
                                     c \in {"present", "missing"}, f \in BOOLEAN}
      \cup {InEv(t, "-", "-", "-", FALSE) :
               t \in {"empty", "badjson", "noevent"} \cup OtherTypes}

\* The text callbacks BillyNova sets (line 164; on_user_text stays None)
TextCallbacks == {"on_assistant_text"}

\* The loop's state while one event is handled
RecvState ==
    [role |-> role, display |-> display_assistant_text, queue |-> audio_queue,
     n |-> nRecv, invoked |-> {}, raised |-> FALSE]

\* An exception leaves the while loop: there is no try inside it
Raise(s) == [s EXCEPT !.raised = TRUE]

\* `if self.on_x: self.on_x(...)`, called on the loop's own task
Invoke(s, cb, present, fails) ==
    IF ~present THEN s
    ELSE IF fails THEN Raise([s EXCEPT !.invoked = @ \cup {cb}])
    ELSE [s EXCEPT !.invoked = @ \cup {cb}]

\* lines 346-356
HandleContentStart(s, e) ==
    IF e.role = "missing" THEN Raise(s)                  \* KeyError, line 348
    ELSE LET r == [s EXCEPT !.role = e.role] IN
         CASE e.stage = "absent" -> r
           [] e.stage = "malformed" -> Raise(r)          \* json.loads, line 352
           [] e.stage = "SPECULATIVE" -> [r EXCEPT !.display = TRUE]
           [] OTHER -> [r EXCEPT !.display = FALSE]

\* lines 359-369
HandleTextOutput(s, e) ==
    IF e.content = "missing" THEN Raise(s)               \* KeyError, line 360
    ELSE IF s.role = "ASSISTANT" /\ s.display
    THEN Invoke(s, "on_assistant_text", "on_assistant_text" \in TextCallbacks,
                e.cbFails)
    ELSE IF s.role = "USER"
    THEN Invoke(s, "on_user_text", "on_user_text" \in TextCallbacks, e.cbFails)
    ELSE s

\* lines 372-378
HandleAudioOutput(s, e) ==
    IF e.content = "missing" THEN Raise(s)               \* KeyError, line 373
    ELSE Invoke([s EXCEPT !.queue = queue_put(s.queue, s.n + 1), !.n = s.n + 1],
                "on_audio_output", on_audio_output = "set", e.cbFails)

\* An else branch that rejects the event: a plausible slip.
HandleOther_rejects(s, e) == Raise(s)

\* No branch of the if/elif chain of lines 346-372 matches: nothing is done
HandleOther(s, e) == s

\* lines 340-378, one inbound event
process_event(s, e) ==
    CASE e.type = "empty" -> s                           \* line 340
      [] e.type = "badjson" -> Raise(s)                  \* line 342
      [] e.type = "noevent" -> s                         \* line 344
      [] e.type = "contentStart" -> HandleContentStart(s, e)
      [] e.type = "textOutput" -> HandleTextOutput(s, e)
      [] e.type = "audioOutput" -> HandleAudioOutput(s, e)
      [] OTHER -> HandleOther(s, e)

\* start_session whole: the response task is created at line 235
RecvStartSession ==
    /\ recv = "none"
    /\ stream' = "open"
    /\ is_active' = TRUE
    /\ trace' = trace \o StartSessionEvents
    /\ recv' = "run"
    /\ UNCHANGED <<orchVars, apiVars, playVars, dutyVars, role,
                   display_assistant_text, on_audio_output, lastEv, nIn,
                   invoked, logged, stage, ctlVars>>

\* The loop is resumed at lines 337-338 with an event, handles it and tests
\* is_active again (line 336); an exception ends it in the handlers of
\* lines 383-388, which print it.
RecvEvent ==
    /\ recv = "run"
    /\ nIn < MaxInbound
    /\ \E e \in Inbound :
         LET r == process_event(RecvState, e) IN
           /\ role' = r.role
           /\ display_assistant_text' = r.display
           /\ audio_queue' = r.queue
           /\ nRecv' = r.n
           /\ invoked' = r.invoked
           /\ logged' = r.raised
           /\ recv' = IF r.raised \/ ~is_active THEN "done" ELSE "run"
           /\ lastEv' = e
           /\ stage' = IF e.type = "contentStart" THEN e.stage ELSE stage
    /\ nIn' = nIn + 1
    /\ UNCHANGED <<clientVars, orchVars, apiVars, graceRecv, written, play,
                   execQ, worker, completed, mouth, torso, speaking, wag, shut,
                   dutyVars, on_audio_output, ctlVars>>

\* The owner ends the session (end_session, lines 297-331)
RecvEndSession ==
    /\ recv # "none"
    /\ is_active
    /\ trace' = end_session(is_active, stream, trace, "none").trace
    /\ stream' = end_session(is_active, stream, trace, "none").stream
    /\ is_active' = FALSE
    /\ UNCHANGED <<orchVars, apiVars, playVars, dutyVars, recvVars, ctlVars>>

\* The transport has been closed: the await of line 337 raises and the
\* loop ends.
RecvStreamEnds ==
    /\ recv = "run"
    /\ stream = "closed"
    /\ recv' = "done"
    /\ UNCHANGED <<clientVars, orchVars, apiVars, playVars, dutyVars, role,
                   display_assistant_text, on_audio_output, lastEv, nIn,
                   invoked, logged, stage, ctlVars>>

InitRecv ==
    /\ InitClient /\ InitOrch /\ InitApiVars /\ InitPlay /\ InitDuty /\ InitCtl
    /\ \E cb \in {"None", "set"} : InitRecvWith(cb)

NextRecv ==
    \/ RecvStartSession
    \/ RecvEvent
    \/ RecvEndSession
    \/ RecvStreamEnds

SpecRecv == InitRecv /\ [][NextRecv]_vars

\* The loop cannot handle the event as the protocol has it
Malformed(e) ==
    \/ e.type = "badjson"
    \/ e.type = "contentStart" /\ (e.role = "missing" \/ e.stage = "malformed")
    \/ e.type \in {"textOutput", "audioOutput"} /\ e.content = "missing"

\* C23: a callback that raises while an audioOutput event is handled does
\* not end the receive loop of an active session.
C23_CallbackFailureSwallowed ==
    (/\ lastEv.type = "audioOutput" /\ lastEv.cbFails
     /\ "on_audio_output" \in invoked
     /\ is_active /\ stream = "open")
      => recv = "run"

\* C24: a malformed inbound event is logged and the receive loop of an
\* active session goes on.
C24_MalformedContinues ==
    (Malformed(lastEv) /\ is_active /\ stream = "open")
      => (logged /\ recv = "run")

\* C25: assistant text is handed to on_assistant_text only when the content
\* block it belongs to was not marked SPECULATIVE in its contentStart.
C25_OnlyFinalTextSurfaced ==
    "on_assistant_text" \in invoked => stage # "SPECULATIVE"

\* C26: an event of a type the loop has no branch for is ignored: the loop
\* of an active session keeps running, the queue, the role and the
\* speculative flag stay as they were, and no callback is invoked.
C26_UnrecognisedIgnored ==
    [][ (nIn' = nIn + 1 /\ lastEv'.type \in OtherTypes)
          => /\ recv' = IF is_active THEN "run" ELSE "done"
             /\ audio_queue' = audio_queue
             /\ role' = role
             /\ display_assistant_text' = display_assistant_text
             /\ invoked' = {}
             /\ ~logged' ]_vars

\* An unrecognised event was handled by a running loop that holds a role,
\* a set flag and queued audio.
C26_Witness ==
    /\ lastEv.type \in OtherTypes
    /\ recv = "run" /\ is_active
    /\ role = "ASSISTANT" /\ display_assistant_text
    /\ audio_queue # << >>

(***************************************************************************)
(* Properties of playback and actuation                                    *)
(***************************************************************************)
\* C4: the chunks are written to the output device in the order the receive
\* loop enqueued them, none twice.
C4_WrittenInArrivalOrder ==
    \A i, j \in 1..Len(written) : i < j => written[i] < written[j]

\* Chunk 2 was lost by a failed write, the supervisor replaced the playback
\* task, and chunk 3 was written after chunk 1.
C4_Witness == written = <<1, 3>>

\* C6: once the shutdown sequence has completed both throttles are zero,
\* and they stay zero.
C6_MotorsZeroAfterShutdown == shut = "done" => (mouth = 0 /\ torso = 0)

\* C7: at most one execution of the audio-chunk callback is in progress.
C7_OneCallbackAtATime == Cardinality({w \in Workers : Busy(w)}) <= 1

\* The chunks whose callback is dispatched, running or finished.
Dispatched ==
    {execQ[i] : i \in 1..Len(execQ)}
      \cup {worker[w].chunk : w \in {v \in Workers : Busy(v)}}
      \cup completed

WrittenSet == {written[i] : i \in 1..Len(written)}

\* C8: the callback of a chunk is dispatched or run only after the chunk
\* has been written to the output device.
C8_ActuationNeverLeads == Dispatched \subseteq WrittenSet

\* A callback has run to its end for a chunk written to the device.
C8_Witness == completed # {} /\ completed \subseteq WrittenSet

\* C9: at most one written chunk has a callback that has not completed.
C9_LagAtMostOne == Cardinality(WrittenSet \ completed) <= 1

\* C18: the torso leaves Active for Returning only when no chunk arrived
\* during the grace sleep; it is driven in reverse while Returning and is
\* stopped, with speaking cleared, when Returning ends.
C18_TorsoReturn ==
    [][ /\ (shut = "grace" /\ shut' = "back")
             => (nRecv = graceRecv /\ torso' = -1)
        /\ (shut = "grace" /\ shut' = "s340") => (speaking' /\ torso' = torso)
        /\ (shut = "back" /\ shut' = "s340") => (torso' = 0 /\ ~speaking') ]_vars

(***************************************************************************)
(* SpecDuty: Billy.drive_mouth called chunk after chunk, time in ms.       *)
(***************************************************************************)
MOUTH_MIN_OPEN_PCT == 12
MouthDurationMinMs == 25
MouthDurationMaxMs == 80
DeadbandPulseMs == 30
\* The duty window and cap of the experiments' _pulse_mouth
MouthDutyWindowMs == 3000
MouthMaxDutyPct == 45

\* The opening percentages process_audio_chunk hands to drive_mouth
Openings == {0, 100}

\* drive_mouth: the time the throttle stays on for this opening.  No pulse
\* is ever skipped: drive_mouth keeps no duty window.
drive_mouth(opening) ==
    IF opening < MOUTH_MIN_OPEN_PCT
    THEN DeadbandPulseMs
    ELSE MouthDurationMinMs
           + (opening * (MouthDurationMaxMs - MouthDurationMinMs)) \div 100

\* dt ms pass: pulses that began MouthDutyWindowMs or more ago leave the window
Advance(ps, dt) ==
    SelectSeq([i \in 1..Len(ps) |-> <<ps[i][1] + dt, ps[i][2]>>],
              LAMBDA q : q[1] < MouthDutyWindowMs)

RECURSIVE OnTime(_)
OnTime(ps) == IF ps = << >> THEN 0 ELSE Head(ps)[2] + OnTime(Tail(ps))

\* on_audio_chunk -> drive_mouth(opening): throttle on, sleep, throttle off
DriveMouth ==
    /\ nReq < MaxRequests
    /\ \E o \in Openings :
         pulses' = Advance(Append(pulses, <<0, drive_mouth(o)>>), drive_mouth(o))
    /\ nReq' = nReq + 1
    /\ UNCHANGED <<clientVars, orchVars, apiVars, playVars, recvVars, ctlVars>>

\* No audio for the length of the window
Silence ==
    /\ pulses # << >>
    /\ pulses' = Advance(pulses, MouthDutyWindowMs)
    /\ UNCHANGED <<nReq, clientVars, orchVars, apiVars, playVars, recvVars, ctlVars>>

NextDuty == DriveMouth \/ Silence

SpecDuty == Init /\ [][NextDuty]_vars

\* C5: within the trailing window the on-time of the pulses issued to the
\* mouth motor never exceeds maxDutyFraction * W.
C5_DutyCap == OnTime(pulses) * 100 <= MouthMaxDutyPct * MouthDutyWindowMs

(***************************************************************************)
(* SpecCtl: AudioMouthController called by on_audio_chunk, and the         *)
(* utterance boundary of run().  Floats are modelled in fixed point:       *)
(* amplitudes in 1/6400 of full scale, openings in 1/1000000 of a percent, *)
(* rounded toward zero.                                                    *)
(***************************************************************************)
smoothing_window == 3
min_threshold == 96          \* 0.015
max_threshold == 1600        \* 0.25
FullScale == 6400            \* rms / 32768.0 = 1.0
FullOpen == 100000000        \* 100.0 percent

\* The normalized amplitudes of the buffers given: silence, a soft buffer
\* (0.02234375) and a buffer at full scale
Amps == {0, 143, FullScale}

\* deque(maxlen=smoothing_window).append
deque_append(h, a) ==
    IF Len(h) < smoothing_window THEN Append(h, a) ELSE Append(Tail(h), a)

RECURSIVE SumSeq(_)
SumSeq(h) == IF h = << >> THEN 0 ELSE Head(h) + SumSeq(Tail(h))

\* line 50: np.mean(history) < min_threshold
BelowThreshold(h) == SumSeq(h) < min_threshold * Len(h)

\* (num/den) ** 0.8 * 100.0 for num/den = (k/2)^5, k in 0..2: the values
\* the amplitudes of Amps lead to
Pow08(num, den) ==
    LET k == CHOOSE j \in 0..2 : j^5 * den = num * 32
    IN  (k^4 * FullOpen) \div 16

\* lines 55-59
TargetOpening(h) ==
    LET den == (max_threshold - min_threshold) * Len(h)
        raw == SumSeq(h) - min_threshold * Len(h)
        num == IF raw > den THEN den ELSE IF raw < 0 THEN 0 ELSE raw
    IN  Pow08(num, den)

\* The release overshooting its target: a plausible slip.
Smooth_overshoot(cur, tgt) ==
    IF tgt < cur
    THEN cur - ((cur - tgt) * 13) \div 10
    ELSE cur + ((tgt - cur) * 4) \div 10

\* lines 63-68: close_speed 0.7 toward a lower target, 0.4 toward a higher
Smooth(cur, tgt) ==
    IF tgt < cur
    THEN LET step == ((cur - tgt) * 7) \div 10
             next == cur - step
         IN  IF tgt > next THEN tgt ELSE next
    ELSE LET step == ((tgt - cur) * 4) \div 10
             next == cur + step
         IN  IF tgt < next THEN tgt ELSE next

\* The hard mute one frame late: a plausible slip.
HardMute_late(counter) == counter > 3

\* line 70
HardMute(counter) == counter > 2

\* process_audio_chunk, lines 40-73, for a non-empty buffer of normalized
\* amplitude a
process_audio_chunk(c, a) ==
    LET h     == deque_append(c.amplitude_history, a)
        below == BelowThreshold(h)
        tgt   == IF below THEN 0 ELSE TargetOpening(h)
        cnt   == IF below THEN c.silence_counter + 1 ELSE 0
        cur   == Smooth(c.current_opening, tgt)
    IN  [amplitude_history |-> h,
         current_opening   |-> IF HardMute(cnt) THEN 0 ELSE cur,
         target_opening    |-> tgt,
         is_speaking       |-> ~below /\ tgt > 3 * (FullOpen \div 100),
         silence_counter   |-> cnt]

\* on_audio_chunk, lines 274-285: the chunk goes through the controller,
\* the first chunk of an utterance raises the torso and sets speaking.
OnAudioChunk ==
    /\ nFrames < MaxFrames
    /\ \E a \in Amps :
         /\ ctl' = process_audio_chunk(ctl, a)
         /\ quiet' = IF BelowThreshold(deque_append(ctl.amplitude_history, a))
                     THEN quiet + 1 ELSE 0
         /\ zeros' = IF a = 0
                     THEN [n |-> zeros.n + 1,
                           hit |-> zeros.hit \/ ctl'.current_opening = 0]
                     ELSE [n |-> 0, hit |-> FALSE]
    /\ ret' = ctl'.current_opening
    /\ prevOpening' = ctl.current_opening
    /\ nFrames' = nFrames + 1
    /\ boundary' = FALSE
    /\ lastOp' = "process"
    /\ IF ~speaking
       THEN torso' = 1 /\ speaking' = TRUE
       ELSE UNCHANGED <<torso, speaking>>
    /\ UNCHANGED <<clientVars, orchVars, apiVars, audio_queue, nRecv, graceRecv,
                   written, play, execQ, worker, completed, mouth, wag, shut,
                   dutyVars, recvVars>>

\* process_audio_chunk, lines 37-38: an empty buffer returns 0.0 and
\* touches nothing
ProcessEmpty ==
    /\ lastOp # "empty"
    /\ ret' = 0
    /\ prevOpening' = ctl.current_opening
    /\ quiet' = 0
    /\ zeros' = [n |-> 0, hit |-> FALSE]
    /\ lastOp' = "empty"
    /\ UNCHANGED <<clientVars, orchVars, apiVars, playVars, dutyVars, recvVars,
                   ctl, nFrames, boundary>>

\* reset, lines 75-81
Reset ==
    /\ lastOp # "reset"
    /\ ctl' = FreshController
    /\ quiet' = 0
    /\ zeros' = [n |-> 0, hit |-> FALSE]
    /\ lastOp' = "reset"
    /\ UNCHANGED <<clientVars, orchVars, apiVars, playVars, dutyVars, recvVars,
                   ret, prevOpening, nFrames, boundary>>

\* run(), lines 336-339: the utterance is over, the torso returns to rest
\* and speaking is cleared; the controller is left as it is.
UtteranceEnd ==
    /\ speaking
    /\ torso' = 0
    /\ speaking' = FALSE
    /\ boundary' = TRUE
    /\ lastOp' = "end"
    /\ UNCHANGED <<clientVars, orchVars, apiVars, audio_queue, nRecv, graceRecv,
                   written, play, execQ, worker, completed, mouth, wag, shut,
                   dutyVars, recvVars, ctl, ret, prevOpening, nFrames, quiet,
                   zeros>>

NextCtl == OnAudioChunk \/ ProcessEmpty \/ Reset \/ UtteranceEnd

SpecCtl == Init /\ [][NextCtl]_vars

\* C27: the third of three consecutive calls whose smoothed amplitude is
\* below min_threshold leaves current_opening at 0 and returns 0.
C27_ThreeQuietFramesMute ==
    (lastOp = "process" /\ quiet >= 3)
      => (ctl.current_opening = 0 /\ ret = 0)

\* The third quiet call found the mouth open and closed it.
C27_Witness ==
    /\ lastOp = "process" /\ quiet = 3
    /\ prevOpening > 0
    /\ ret = 0

\* C28: of three consecutive calls with an all-zero buffer at least one
\* returns 0.
C28_ZeroBufferClosesInThree == zeros.n >= 3 => zeros.hit

InRange(x) == 0 <= x /\ x <= FullOpen

Between(lo, x, hi) == (lo <= x /\ x <= hi) \/ (hi <= x /\ x <= lo)

\* C29: current_opening, target_opening and every returned value lie in
\* [0, 100], and a call leaves current_opening between its previous value
\* and the new target unless the hard mute forced it to 0.
C29_OpeningBounded ==
    /\ InRange(ctl.current_opening)
    /\ InRange(ctl.target_opening)
    /\ InRange(ret)
    /\ lastOp = "process"
         => \/ Between(prevOpening, ctl.current_opening, ctl.target_opening)
            \/ HardMute(ctl.silence_counter) /\ ctl.current_opening = 0

\* A release toward a target above zero stopped strictly between the
\* previous opening and the target.
C29_Witness ==
    /\ lastOp = "process"
    /\ 0 < ctl.target_opening
    /\ ctl.target_opening < ctl.current_opening
    /\ ctl.current_opening < prevOpening

\* C30: the first chunk after an utterance has ended is processed by a
\* controller whose amplitude window is empty and whose silence counter is 0.
C30_ResetAtUtteranceBoundary ==
    [][ (boundary /\ nFrames' = nFrames + 1)
          => (ctl.amplitude_history = << >> /\ ctl.silence_counter = 0) ]_vars

(***************************************************************************)
(* Properties of the outbound event trace                                  *)
(***************************************************************************)
\* Event i lies inside an open block of its content name: a contentStart
\* of that name precedes it with no contentEnd of that name in between.
InsideBlock(tr, i) ==
    \E j \in 1..(i - 1) :
        /\ tr[j] = ContentStart(tr[i].name)
        /\ \A k \in (j + 1)..(i - 1) : tr[k] # ContentEnd(tr[i].name)

\* The block named n is open at the end of tr.
BlockOpen(tr, n) ==
    \E j \in 1..Len(tr) :
        /\ tr[j] = ContentStart(n)
        /\ \A k \in (j + 1)..Len(tr) : tr[k] # ContentEnd(n)

\* C1: every payload event (textInput, audioInput) is sent after the
\* contentStart of its block and before the block's contentEnd.
C1_PayloadInsideBlock ==
    \A i \in 1..Len(trace) : IsPayload(trace[i]) => InsideBlock(trace, i)

\* C2: no two contentStart events of one content name without a contentEnd
\* of that name between them.
C2_NoDoubleStart ==
    \A i, j \in 1..Len(trace) :
        (i < j /\ trace[i].ev = "contentStart" /\ trace[j] = trace[i])
          => \E k \in (i + 1)..(j - 1) : trace[k] = ContentEnd(trace[i].name)

\* C3: start_audio_input called while the USER/AUDIO block is open does not
\* emit a second contentStart.
C3_SecondOpenRejected ==
    [][ BlockOpen(trace, audio_content_name)
          => ~(/\ Len(trace') = Len(trace) + 1
               /\ trace'[Len(trace')] = ContentStart(audio_content_name)) ]_vars

\* C15: a content block opened after an earlier block was closed has a
\* content name different from that of the closed block.
C15_FreshNamePerBlock ==
    \A i, k, j \in 1..Len(trace) :
        (/\ i < k /\ k < j
         /\ trace[i].ev = "contentStart"
         /\ trace[k] = ContentEnd(trace[i].name)
         /\ trace[j].ev = "contentStart")
          => trace[j].name # trace[i].name

\* C31: a failure to establish the session ends run() with the exception:
\* start_session is not tried again, no event has been sent, the session is
\* not active, and no capture task and none of the tasks of lines 235-297
\* exists.
C31_ConnectFailurePropagates ==
    /\ sup.pc = "raised"
         => /\ trace = << >> /\ stream = "none" /\ ~is_active
            /\ cap = << >> /\ audio_capture_task = 0
            /\ ~ResponseTask
    /\ sup.pc = "session" => stream = "open"

\* The session could not be established; the button has been pressed since.
C31_Witness == sup.pc = "raised" /\ listening_active /\ pending_text = "greeting"

\* The three events of the k-th say_text call, in order
SayTextEvents(k) ==
    << ContentStart(TextName(k)), TextInput(TextName(k)), ContentEnd(TextName(k)) >>

\* C21: sending a pending announcement (line 314) emits contentStart,
\* textInput and contentEnd, in this order, for a content name that is not
\* the audio content name and not that of an open block; none of the three
\* sends changes whether the audio block is open.
C21_AnnouncementFrame ==
    [][ (sup'.pc # sup.pc /\ sup'.back = "s317"
           /\ sup'.pc \in {"say1", "say2", "say3"})
          => LET i == CASE sup'.pc = "say1" -> 1
                        [] sup'.pc = "say2" -> 2
                        [] sup'.pc = "say3" -> 3
             IN  /\ trace' = Append(trace, SayTextEvents(nText')[i])
                 /\ trace'[Len(trace')].name # audio_content_name
                 /\ i = 1 => ~BlockOpen(trace, trace'[Len(trace')].name)
                 /\ BlockOpen(trace', audio_content_name)
                       <=> BlockOpen(trace, audio_content_name) ]_vars

\* An announcement has been sent whole while the audio block was open.
C21_Witness ==
    /\ sup.pc = "say3" /\ sup.back = "s317"
    /\ BlockOpen(trace, audio_content_name)
    /\ trace[Len(trace)] = ContentEnd(TextName(nText))

\* The supervisor is inside the tick that found the inactivity timeout expired
TimeoutPcs == {"s320", "s322", "s323"}

\* C20: the tick that finds the gate on and the inactivity timeout expired
\* turns the gate off, cancels and forgets the capture task and begins the
\* goodbye announcement; no capture task is created while the gate is off.
C20_InactivityTick ==
    [][ /\ (sup.pc \in TimeoutPcs /\ sup'.pc \notin TimeoutPcs)
             => (/\ sup'.pc = "say1"
                 /\ audio_capture_task' = 0
                 /\ Len(trace') = Len(trace) + 1
                 /\ trace'[Len(trace')] = ContentStart(TextName(nText')))
        /\ (sup.pc = "s320" /\ sup'.pc # "s320") => ~listening_active' ]_vars

\* The capture tasks created and not yet finished
RunningCapture == {t \in Tasks : cap[t].pc # "done"}

\* C16: at most one capture task is running at any moment, a cancelled task
\* still in its cleanup included.
C16_OneCaptureTask == Cardinality(RunningCapture) <= 1

\* C17: a capture task that has started and ended has released the input
\* device and sent the contentEnd of its audio block.
C17_CaptureCleansUp ==
    \A t \in Tasks :
        (cap[t].pc = "done" /\ cap[t].device # "none")
          => (cap[t].device = "released" /\ cap[t].block = "closed")

(***************************************************************************)
(* SpecStart: run() with the receive loop beside it, for a start-up with   *)
(* few button presses, capture tasks and audioOutput events                *)
(***************************************************************************)
StartBound ==
    /\ presses' <= MaxStartPress
    /\ Len(cap') <= MaxStartCapture
    /\ nRecv' <= MaxStartChunks

NextStart ==
    \/ StartSessionOpen /\ StartBound
    \/ StartSessionSend /\ StartBound
    \/ SupStartSession /\ StartBound
    \/ SupCheckRestart /\ StartBound
    \/ SupRestartCapture /\ StartBound
    \/ SupReadPending /\ StartBound
    \/ SupClearPending /\ StartBound
    \/ SupSayText /\ StartBound
    \/ SupInactivity /\ StartBound
    \/ SupTimeoutGateOff /\ StartBound
    \/ SupTimeoutCancel /\ StartBound
    \/ SupTimeoutGoodbye /\ StartBound
    \/ SupInterrupt /\ StartBound
    \/ SupFinally /\ StartBound
    \/ SupCheckStart /\ StartBound
    \/ SupStartCapture /\ StartBound
    \/ SupSleep /\ StartBound
    \/ (\E t \in Tasks : CaptureFirst(t)) /\ StartBound
    \/ (\E t \in Tasks : CaptureStarted(t)) /\ StartBound
    \/ (\E t \in Tasks : CaptureLoop(t)) /\ StartBound
    \/ (\E t \in Tasks : CaptureClosed(t)) /\ StartBound
    \/ ButtonPress /\ StartBound
    \/ ButtonCancel /\ StartBound
    \/ ButtonForget /\ StartBound
    \/ ButtonQueueText /\ StartBound
    \/ ReceiveAudio /\ StartBound

SpecStart == Init /\ [][NextStart]_vars

\* C11: start_session emits sessionStart, promptStart, contentStart,
\* textInput, contentEnd of the system block in this order, and no capture
\* task sends anything and no audioOutput is dispatched before they are out.
C11_StartOrder ==
    /\ \A i \in 1..Len(trace) :
          i <= Len(StartSessionEvents) =>
             /\ trace[i].ev = <<"sessionStart", "promptStart", "contentStart",
                                "textInput", "contentEnd">>[i]
             /\ trace[i].name = <<"-", "-", content_name, content_name,
                                  content_name>>[i]
    /\ (cap # << >> \/ nRecv > 0) => Len(trace) >= 5

\* The session is started, a capture task has opened its audio block and an
\* audioOutput has been dispatched.
C11_Witness ==
    /\ nRecv > 0
    /\ \E i \in 1..Len(trace) : trace[i] = ContentStart(audio_content_name)

InitApi == InitClient /\ InitOrch /\ InitApiVars /\ InitPlay /\ InitDuty
             /\ InitRecvVars /\ InitCtl

NextApi ==
    \/ ApiStartSession
    \/ ApiStartAudioInput
    \/ ApiSendAudioChunk
    \/ ApiEndAudioInput
    \/ ApiEndSession

SpecApi == InitApi /\ [][NextApi]_vars

(***************************************************************************)
(* C10: send_audio_chunk called while the session is not active emits no   *)
(* event, raises no error and leaves the engine state unchanged.           *)
(***************************************************************************)
C10_InactiveSendIsNoOp ==
    [][ (nCalls' # nCalls /\ lastCall'.op = "send_audio_chunk" /\ ~is_active)
          => (/\ trace' = trace
              /\ is_active' = is_active
              /\ stream' = stream
              /\ ~lastCall'.raised) ]_vars

\* send_audio_chunk has been called on an inactive session whose transport
\* was closed by end_session, after audio had been streamed.
C10_Witness ==
    /\ lastCall.op = "send_audio_chunk"
    /\ ~lastCall.active
    /\ ~lastCall.raised
    /\ stream = "closed"
    /\ \E i \in 1..Len(trace) : trace[i] = AudioInput

(***************************************************************************)
(* end_session                                                             *)
(***************************************************************************)
EndCalled == nCalls' # nCalls /\ lastCall'.op = "end_session"

\* C12: end_session on an active session whose transport works emits
\* promptEnd, then sessionEnd, then closes the input stream, and leaves the
\* session inactive.
C12_EndSessionOrder ==
    [][ (EndCalled /\ is_active /\ lastCall'.fault = "none")
          => (/\ trace' = trace \o <<PromptEnd, SessionEnd>>
              /\ stream' = "closed"
              /\ ~is_active') ]_vars

\* end_session has closed an active session.
C12_Witness ==
    /\ lastCall.op = "end_session" /\ lastCall.active
    /\ lastCall.fault = "none"
    /\ stream = "closed"
    /\ \E i \in 1..Len(trace) : trace[i] = AudioInput

\* C13: end_session called again on a session that end_session has left
\* inactive emits no event, does not touch the transport and leaves the
\* session inactive.
C13_EndSessionIdempotent ==
    [][ (EndCalled /\ lastCall.op = "end_session")
          => (/\ trace' = trace
              /\ stream' = stream
              /\ lastCall'.failed = "none"
              /\ ~lastCall'.raised
              /\ ~is_active') ]_vars

\* end_session was called twice in a row, the first call on an active
\* session, and the transport had failed in the first.
C13_Witness ==
    /\ lastCall.op = "end_session" /\ ~lastCall.active
    /\ lastCall.prev = "end_session"
    /\ stream = "open"

\* C14: a failure inside end_session on a session that was active is
\* reported or raised.
C14_ActiveFailureReported ==
    (lastCall.op = "end_session" /\ lastCall.active /\ lastCall.failed # "none")
       => (lastCall.reported \/ lastCall.raised)

---------------------------------------------------------------------------
(* Playback: what becomes of a chunk the task has taken from the queue     *)

\* The chunks the playback tasks have taken from the queue so far
Dequeued ==
    {c \in 1..nRecv : \A i \in 1..Len(audio_queue) : audio_queue[i] # c}

\* The chunks handed to the callback pool: waiting, being handled, handled
Handed ==
    {execQ[i] : i \in 1..Len(execQ)}
      \cup {worker[w].chunk : w \in {v \in Workers : Busy(v)}}
      \cup completed

\* C32: every chunk a playback task has taken from the queue has been
\* written to the output device, and once only, whichever candidate rate
\* the device was opened at.
C32_DequeuedChunkWritten ==
    /\ \A c \in Dequeued : \E i \in 1..Len(written) : written[i] = c
    /\ \A i, j \in 1..Len(written) : written[i] = written[j] => i = j

C34_RestartWhileActiveNoChunkConsumed ==
    [][ /\ (play.pc = "done" /\ play'.pc = "new") => (is_active /\ is_active')
        /\ (play.pc = "new" /\ play'.pc = "done")
              => (audio_queue' = audio_queue /\ written' = written /\ execQ' = execQ) ]_vars

\* A replacement task (chunk 1 was taken by a task before it) has ended
\* because the device opened at no rate, with chunks waiting in the queue.
C34_Witness ==
    /\ play = PlayDone /\ is_active /\ shut = "s340"
    /\ 1 \in Dequeued
    /\ audio_queue # << >>

\* C35: the torso state (the speaking flag, the torso throttle and with it
\* torso_active) changes only in a step of the supervisor, whose position
\* shut moves with every such step; a step of a pool worker running the
\* audio-chunk callback leaves it as it was.
C35_TorsoOnlyBySupervisor ==
    [][ (torso' # torso \/ speaking' # speaking)
          => (shut' # shut /\ worker' = worker) ]_vars

\* C36: sessionEnd is the last event handed to the transport, and when
\* promptEnd is sent the USER/AUDIO block is not open: its contentEnd has
\* gone out before.
C36_NothingAfterSessionEnd ==
    \A i \in 1..Len(trace) :
        /\ trace[i] = SessionEnd => i = Len(trace)
        /\ trace[i] = PromptEnd
             => ~BlockOpen(SubSeq(trace, 1, i - 1), audio_content_name)

\* C37: after a well-formed contentStart the flag that routes textOutput
\* says whether that contentStart announced a SPECULATIVE block; a
\* contentStart without additionalModelFields leaves it cleared.
C37_FlagFollowsLatestContentStart ==
    (lastEv.type = "contentStart" /\ ~Malformed(lastEv))
       => (display_assistant_text <=> lastEv.stage = "SPECULATIVE")

\* C38: no announcement in the pending slot is lost: a button press stores
\* its announcement only into an empty slot, and the supervisor clears the
\* slot only of the announcement it has read and is about to send.
C38_PendingAnnouncementNotLost ==
    [][ /\ (btn.pc \in {"b201", "b207"} /\ btn'.pc = "idle")
              => pending_text = "none"
        /\ (sup.pc = "s313" /\ sup'.pc # "s313")
              => pending_text = sup.text ]_vars

\* C39: the mouth controller processes the chunks in the order they were
\* written to the device: when a worker leaves process_audio_chunk with its
\* chunk, every chunk written before that one has been processed already.
C39_ProcessedInWriteOrder ==
    [][ \A w \in Workers :
          (worker[w].pc = "proc" /\ worker'[w].pc = "pulse")
            => \A i, j \in 1..Len(written) :
                 (i < j /\ written[j] = worker[w].chunk)
                   => \/ written[i] \in completed
                      \/ \E v \in Workers :
                            /\ worker[v].chunk = written[i]
                            /\ worker[v].pc \in {"pulse", "post"} ]_vars

(***************************************************************************)
(* SpecLive: the session running and never shut down: the receive loop,    *)
(* the playback task, the pool, the supervisor's ticks, idle_wag and the   *)
(* button.  The event loop runs every task that is ready and the pool's    *)
(* threads are scheduled by the operating system, so every step of a task  *)
(* or a thread that stays possible is taken in the end; nothing makes the  *)
(* service send a chunk, the user press the button or the output device    *)
(* open.                                                                   *)
(***************************************************************************)
MaxLiveChunks == 3
MaxLivePress == 2

LiveBound == nRecv' <= MaxLiveChunks /\ presses' <= MaxLivePress

NextLive ==
    \/ RunStart /\ LiveBound
    \/ ReceiveAudio /\ LiveBound
    \/ PlayStart /\ LiveBound
    \/ PlayWrite /\ LiveBound
    \/ PlaySubmit /\ LiveBound
    \/ (\E w \in Workers : WorkerTake(w)) /\ LiveBound
    \/ (\E w \in Workers : WorkerPulseOn(w)) /\ LiveBound
    \/ (\E w \in Workers : WorkerPulseOff(w)) /\ LiveBound
    \/ (\E w \in Workers : WorkerFinish(w)) /\ LiveBound
    \/ SupTick /\ LiveBound
    \/ SupGrace /\ LiveBound
    \/ SupBack /\ LiveBound
    \/ IdleWagCheck /\ LiveBound
    \/ IdleWagReverse /\ LiveBound
    \/ IdleWagStop /\ LiveBound
    \/ ButtonPress /\ LiveBound
    \/ ButtonCancel /\ LiveBound
    \/ ButtonQueueText /\ LiveBound

Scheduling ==
    /\ WF_vars(RunStart)
    /\ WF_vars(PlayStart)
    /\ WF_vars(PlayWrite)
    /\ WF_vars(PlaySubmit)
    /\ \A w \in Workers :
          /\ WF_vars(WorkerTake(w))
          /\ WF_vars(WorkerPulseOn(w))
          /\ WF_vars(WorkerPulseOff(w))
          /\ WF_vars(WorkerFinish(w))
    /\ WF_vars(SupTick)
    /\ WF_vars(SupGrace)
    /\ WF_vars(SupBack)
    /\ WF_vars(IdleWagCheck)
    /\ WF_vars(IdleWagReverse)
    /\ WF_vars(IdleWagStop)
    /\ WF_vars(ButtonCancel)
    /\ WF_vars(ButtonQueueText)

SpecLive == Init /\ [][NextLive]_vars /\ Scheduling

\* C40: once the torso has been driven forward for an utterance and the
\* last chunk has arrived, the torso comes to Rest, its throttle at 0 and
\* the speaking flag cleared, the supervisor ticking on.
C40_TorsoReturnsToRest ==
    (speaking /\ torso = 1 /\ nRecv = MaxLiveChunks) ~> (~speaking /\ torso = 0)

=============================================================================
